---- MODULE Spec2Model ----
(***************************************************************************)
(* Model of the decay-action finder (src/src/decayactionsfinder.cc) and of *)
(* the Clebsch-Gordan lookup table (clebschgordan_lookup.h) of SMASH.      *)
(*                                                                         *)
(* Times (decay times, formation times, step sizes) are doubles in the     *)
(* code; the model places them on an integer grid.  Widths are doubles in  *)
(* the code; the model uses small integers.                                *)
(***************************************************************************)
EXTENDS Integers, Sequences, FiniteSets, TLC

VARIABLES
    search_list,   \* the particle list handed to the finder
    dt,            \* the step size handed to find_actions_in_cell
    only_res,      \* the (unused) flag handed to find_final_actions
    actions,       \* the ActionList the call returned
    draws,         \* the calls of Random::exponential made, in order
    outcome,       \* "none" before the call, "returned" / "failed" after it
    op,            \* which operation ran: "none", "cell", "final"
    added,         \* ClebschGordan::lookup_table: the entries it holds that
                   \* its initializer does not
    erased,        \* ClebschGordan::lookup_table: the entries of its
                   \* initializer it no longer holds
    calls,         \* the calls of ClebschGordan::coefficient made, in order,
                   \* each with the table (added, erased) it found
    spins,         \* the pair of ThreeSpins keys handed to ThreeSpinHash
    hashes,        \* the pair of hash values ThreeSpinHash returned for them
    callers,       \* the concurrent callers of ClebschGordan::coefficient:
                   \* where each is in the call, and what it holds
    need_init_,    \* RivetOutput::need_init_
    handler_,      \* the calls made on the Rivet::AnalysisHandler, in order
    events         \* the event numbers RivetOutput::at_eventend was called
                   \* with, in order

decay_vars == <<search_list, dt, only_res, actions, draws, outcome, op>>
cg_vars == <<added, erased, calls>>
hash_vars == <<spins, hashes>>
conc_vars == <<callers>>
rivet_vars == <<need_init_, handler_, events>>
vars == <<decay_vars, cg_vars, hash_vars, conc_vars, rivet_vars>>

(***************************************************************************)
(* Bounds of the model.                                                    *)
(***************************************************************************)
MaxLen == 2
MaxTime == 2
MaxCalls == 3
MaxJ == 3
MaxCallers == 2
MaxEvents == 3

Times == 0 .. MaxTime
(* The values Random::exponential can return: non-negative times. *)
Samples == 0 .. MaxTime
StepSizes == -1 .. MaxTime
CurrentTimes == {0, 1}

(***************************************************************************)
(* Particle types as the finder sees them: is_stable(), the hadronic       *)
(* branch list and the full branch list at the particle's effective mass.  *)
(* A DecayBranch is a channel and its partial width (its weight).          *)
(***************************************************************************)
Branch(c, w) == [channel |-> c, weight |-> w]

ParticleTypes ==
    { [name |-> "stable",   stable |-> TRUE,
       hadronic |-> <<Branch("a", 1)>>,
       full     |-> <<Branch("a", 1)>>],
      [name |-> "closed",   stable |-> FALSE,
       hadronic |-> <<>>,
       full     |-> <<>>],
      [name |-> "zero",     stable |-> FALSE,
       hadronic |-> <<Branch("a", 0)>>,
       full     |-> <<Branch("a", 0)>>],
      [name |-> "negative", stable |-> FALSE,
       hadronic |-> <<Branch("a", 1), Branch("b", -2)>>,
       full     |-> <<Branch("a", 1), Branch("b", -2)>>],
      [name |-> "lepton",   stable |-> FALSE,
       hadronic |-> <<>>,
       full     |-> <<Branch("e", 1)>>],
      [name |-> "mixed",    stable |-> FALSE,
       hadronic |-> <<Branch("b", 2), Branch("a", 1)>>,
       full     |-> <<Branch("b", 2), Branch("a", 1), Branch("e", 1)>>] }

ParticleData(x0) ==
    [type : ParticleTypes, formation_time : Times, x0 : {x0}]

ParticleLists(x0) ==
    UNION { [1 .. n -> ParticleData(x0)] : n \in 0 .. MaxLen }

(***************************************************************************)
(* The accessors of ParticleData and ParticleType the finder calls.        *)
(***************************************************************************)
is_stable(p) == p.type.stable

get_partial_widths_hadronic_All(p) == p.type.full

get_partial_widths_hadronic(p) == p.type.hadronic

get_partial_widths(p) == p.type.full

RECURSIVE total_weight(_)
total_weight(l) ==
    IF l = <<>> THEN 0 ELSE Head(l).weight + total_weight(Tail(l))

(***************************************************************************)
(* DecayAction(p, time) followed by add_decays(processes).  src is the     *)
(* position of the particle in the searched list.                          *)
(***************************************************************************)
DecayAction(i, p, time) ==
    [src |-> i, particle |-> p, decay_time |-> time, decays |-> <<>>]

add_decays(act, processes) ==
    [act EXCEPT !.decays = act.decays \o processes]

emplace_back_AtFront(list, act) == <<act>> \o list

emplace_back(list, act) == Append(list, act)

(***************************************************************************)
(* find_actions_in_cell: the guards of the loop body.                      *)
(***************************************************************************)
HasHadronicDecays_NonNegative(width) == width >= 0

HasHadronicDecays(width) == width > 0

DecaysInStep_Inclusive(p, decay_time, step) ==
    /\ decay_time <= step
    /\ p.formation_time < p.x0 + decay_time

DecaysInStep_FormedAtDecay(p, decay_time, step) ==
    /\ decay_time < step
    /\ p.formation_time <= p.x0 + decay_time

DecaysInStep(p, decay_time, step) ==
    /\ decay_time < step
    /\ p.formation_time < p.x0 + decay_time

(***************************************************************************)
(* find_actions_in_cell, tape being the values Random::exponential will    *)
(* return, in the order of the calls.  The result is the action list and   *)
(* the log of the draws made.                                              *)
(***************************************************************************)
RECURSIVE CellLoop(_, _, _, _, _, _)
CellLoop(i, list, step, tape, acts, drawn) ==
    IF i > Len(list) THEN [actions |-> acts, draws |-> drawn]
    ELSE
      LET p == list[i] IN
      IF is_stable(p) THEN CellLoop(i + 1, list, step, tape, acts, drawn)
      ELSE
        LET processes == get_partial_widths_hadronic(p)
            width == total_weight(processes)
        IN
        IF ~ HasHadronicDecays(width)
        THEN CellLoop(i + 1, list, step, tape, acts, drawn)
        ELSE
          LET decay_time == tape[Len(drawn) + 1]
              drawn2 == Append(drawn,
                               [src |-> i, width |-> width, value |-> decay_time])
          IN
          IF DecaysInStep(p, decay_time, step)
          THEN CellLoop(i + 1, list, step, tape,
                        emplace_back(acts,
                            add_decays(DecayAction(i, p, decay_time), processes)),
                        drawn2)
          ELSE CellLoop(i + 1, list, step, tape, acts, drawn2)

find_actions_in_cell(list, step, tape) ==
    CellLoop(1, list, step, tape, <<>>, <<>>)

(***************************************************************************)
(* find_final_actions.                                                     *)
(***************************************************************************)
FinalStep_Unguarded(i, p, acts) ==
    emplace_back(acts,
        add_decays(DecayAction(i, p, 0), get_partial_widths(p)))

FinalStep_Hadronic(i, p, acts) ==
    IF is_stable(p) THEN acts
    ELSE emplace_back(acts,
             add_decays(DecayAction(i, p, 0), get_partial_widths_hadronic(p)))

FinalStep(i, p, acts) ==
    IF is_stable(p) THEN acts
    ELSE emplace_back(acts,
             add_decays(DecayAction(i, p, 0), get_partial_widths(p)))

RECURSIVE FinalLoop(_, _, _)
FinalLoop(i, list, acts) ==
    IF i > Len(list) THEN acts
    ELSE FinalLoop(i + 1, list, FinalStep(i, list[i], acts))

find_final_actions_OnlyFormed(list, flag) ==
    IF flag
    THEN FinalLoop(1, SelectSeq(list, LAMBDA p : p.formation_time <= p.x0), <<>>)
    ELSE FinalLoop(1, list, <<>>)

find_final_actions(list, flag) == FinalLoop(1, list, <<>>)

(***************************************************************************)
(* Clebsch-Gordan coefficients.  A ThreeSpins key holds six doubled spins. *)
(* A coefficient is a double printed with 17 decimals in the table; it is  *)
(* kept exactly as <<sign, units, first 9 decimals, last 8 decimals>>.     *)
(***************************************************************************)
ThreeSpins(a, b, c, x, y, z) ==
    [j1 |-> a, j2 |-> b, j3 |-> c, m1 |-> x, m2 |-> y, m3 |-> z]

Real_Unsigned(sign, units, f1, f2) == <<1, units, f1, f2>>

Real(sign, units, f1, f2) == <<sign, units, f1, f2>>

Zero == Real(1, 0, 0, 0)

Entry(k, v) == [key |-> k, value |-> v]

(* ThreeSpins::tied and ThreeSpins::operator== *)
tied(k) == <<k.j1, k.j2, k.j3, k.m1, k.m2, k.m3>>

KeyEq_TrustHash(a, b) == TRUE

KeyEq(a, b) == tied(a) = tied(b)

(* Integer division of C++: the quotient is truncated towards zero. *)
CDiv(a, b) == IF a >= 0 THEN a \div b ELSE -((-a) \div b)

(* ThreeSpinHash::operator() *)
ThreeSpinHash(in) ==
    LET S == -in.j1 + in.j2 + in.j3
        L == in.j1 - in.j2 + in.j3
        X == in.j1 - in.m1
        B == in.j2 - in.m2
        T == in.j3 + in.m3
    IN  CDiv(L * (24 + L * (50 + L * (35 + L * (10 + L)))), 120)
        + CDiv(X * (6 + X * (11 + X * (6 + X))), 24)
        + CDiv(T * (2 + T * (3 + T)), 6)
        + CDiv(B * (B + 1), 2) + S + 1

(* The initializer of ClebschGordan::lookup_table. *)
TabulatedEntries ==
    { Entry(ThreeSpins(0, 0, 0, 0, 0, 0), Real(1, 1, 0, 0)),
      Entry(ThreeSpins(0, 1, 1, 0, -1, -1), Real(1, 1, 0, 22)),
      Entry(ThreeSpins(0, 1, 1, 0, 1, 1), Real(1, 1, 0, 22)),
      Entry(ThreeSpins(0, 2, 2, 0, -2, -2), Real(1, 0, 999999999, 99999989)),
      Entry(ThreeSpins(0, 2, 2, 0, 0, 0), Real(1, 0, 999999999, 99999989)),
      Entry(ThreeSpins(0, 2, 2, 0, 2, 2), Real(1, 0, 999999999, 99999989)),
      Entry(ThreeSpins(0, 3, 3, 0, -3, -3), Real(1, 1, 0, 0)),
      Entry(ThreeSpins(0, 3, 3, 0, -1, -1), Real(1, 0, 999999999, 99999989)),
      Entry(ThreeSpins(0, 3, 3, 0, 1, 1), Real(1, 0, 999999999, 99999989)),
      Entry(ThreeSpins(0, 3, 3, 0, 3, 3), Real(1, 1, 0, 0)),
      Entry(ThreeSpins(1, 0, 1, -1, 0, -1), Real(1, 1, 0, 22)),
      Entry(ThreeSpins(1, 0, 1, 1, 0, 1), Real(1, 1, 0, 22)),
      Entry(ThreeSpins(1, 1, 0, -1, 1, 0), Real(-1, 0, 707106781, 18654757)),
      Entry(ThreeSpins(1, 1, 0, 1, -1, 0), Real(1, 0, 707106781, 18654757)),
      Entry(ThreeSpins(1, 1, 2, -1, -1, -2), Real(1, 0, 999999999, 99999989)),
      Entry(ThreeSpins(1, 1, 2, -1, 1, 0), Real(1, 0, 707106781, 18654746)),
      Entry(ThreeSpins(1, 1, 2, 1, -1, 0), Real(1, 0, 707106781, 18654746)),
      Entry(ThreeSpins(1, 1, 2, 1, 1, 2), Real(1, 0, 999999999, 99999989)),
      Entry(ThreeSpins(1, 2, 1, -1, 0, -1), Real(-1, 0, 577350269, 18962584)),
      Entry(ThreeSpins(1, 2, 1, -1, 2, 1), Real(-1, 0, 816496580, 92772615)),
      Entry(ThreeSpins(1, 2, 1, 1, -2, -1), Real(1, 0, 816496580, 92772615)),
      Entry(ThreeSpins(1, 2, 1, 1, 0, 1), Real(1, 0, 577350269, 18962584)),
      Entry(ThreeSpins(1, 2, 3, -1, -2, -3), Real(1, 1, 0, 0)),
      Entry(ThreeSpins(1, 2, 3, -1, 0, -1), Real(1, 0, 816496580, 92772615)),
      Entry(ThreeSpins(1, 2, 3, -1, 2, 1), Real(1, 0, 577350269, 18962584)),
      Entry(ThreeSpins(1, 2, 3, 1, -2, -1), Real(1, 0, 577350269, 18962584)),
      Entry(ThreeSpins(1, 2, 3, 1, 0, 1), Real(1, 0, 816496580, 92772615)),
      Entry(ThreeSpins(1, 2, 3, 1, 2, 3), Real(1, 1, 0, 0)),
      Entry(ThreeSpins(1, 3, 2, -1, -1, -2), Real(-1, 0, 499999999, 99999983)),
      Entry(ThreeSpins(1, 3, 2, -1, 1, 0), Real(-1, 0, 707106781, 18654724)),
      Entry(ThreeSpins(1, 3, 2, -1, 3, 2), Real(-1, 0, 866025403, 78443837)),
      Entry(ThreeSpins(1, 3, 2, 1, -3, -2), Real(1, 0, 866025403, 78443837)),
      Entry(ThreeSpins(1, 3, 2, 1, -1, 0), Real(1, 0, 707106781, 18654724)),
      Entry(ThreeSpins(1, 3, 2, 1, 1, 2), Real(1, 0, 499999999, 99999983)),
      Entry(ThreeSpins(1, 3, 4, -1, -3, -4), Real(1, 1, 0, 22)),
      Entry(ThreeSpins(1, 3, 4, -1, -1, -2), Real(1, 0, 866025403, 78443871)),
      Entry(ThreeSpins(1, 3, 4, -1, 1, 0), Real(1, 0, 707106781, 18654746)),
      Entry(ThreeSpins(1, 3, 4, -1, 3, 2), Real(1, 0, 499999999, 99999994)),
      Entry(ThreeSpins(1, 3, 4, 1, -3, -2), Real(1, 0, 499999999, 99999994)),
      Entry(ThreeSpins(1, 3, 4, 1, -1, 0), Real(1, 0, 707106781, 18654746)),
      Entry(ThreeSpins(1, 3, 4, 1, 1, 2), Real(1, 0, 866025403, 78443871)),
      Entry(ThreeSpins(1, 3, 4, 1, 3, 4), Real(1, 1, 0, 22)),
      Entry(ThreeSpins(2, 0, 2, -2, 0, -2), Real(1, 0, 999999999, 99999989)),
      Entry(ThreeSpins(2, 0, 2, 0, 0, 0), Real(1, 0, 999999999, 99999989)),
      Entry(ThreeSpins(2, 0, 2, 2, 0, 2), Real(1, 0, 999999999, 99999989)),
      Entry(ThreeSpins(2, 1, 1, -2, 1, -1), Real(-1, 0, 816496580, 92772615)),
      Entry(ThreeSpins(2, 1, 1, 0, -1, -1), Real(1, 0, 577350269, 18962584)),
      Entry(ThreeSpins(2, 1, 1, 0, 1, 1), Real(-1, 0, 577350269, 18962584)),
      Entry(ThreeSpins(2, 1, 1, 2, -1, 1), Real(1, 0, 816496580, 92772615)),
      Entry(ThreeSpins(2, 1, 3, -2, -1, -3), Real(1, 1, 0, 0)),
      Entry(ThreeSpins(2, 1, 3, -2, 1, -1), Real(1, 0, 577350269, 18962584)),
      Entry(ThreeSpins(2, 1, 3, 0, -1, -1), Real(1, 0, 816496580, 92772615)),
      Entry(ThreeSpins(2, 1, 3, 0, 1, 1), Real(1, 0, 816496580, 92772615)),
      Entry(ThreeSpins(2, 1, 3, 2, -1, 1), Real(1, 0, 577350269, 18962584)),
      Entry(ThreeSpins(2, 1, 3, 2, 1, 3), Real(1, 1, 0, 0)),
      Entry(ThreeSpins(2, 2, 0, -2, 2, 0), Real(1, 0, 577350269, 18962584)),
      Entry(ThreeSpins(2, 2, 0, 0, 0, 0), Real(-1, 0, 577350269, 18962573)),
      Entry(ThreeSpins(2, 2, 0, 2, -2, 0), Real(1, 0, 577350269, 18962584)),
      Entry(ThreeSpins(2, 2, 2, -2, 0, -2), Real(-1, 0, 707106781, 18654735)),
      Entry(ThreeSpins(2, 2, 2, -2, 2, 0), Real(-1, 0, 707106781, 18654735)),
      Entry(ThreeSpins(2, 2, 2, 0, -2, -2), Real(1, 0, 707106781, 18654735)),
      Entry(ThreeSpins(2, 2, 2, 0, 2, 2), Real(-1, 0, 707106781, 18654735)),
      Entry(ThreeSpins(2, 2, 2, 2, -2, 0), Real(1, 0, 707106781, 18654735)),
      Entry(ThreeSpins(2, 2, 2, 2, 0, 2), Real(1, 0, 707106781, 18654735)),
      Entry(ThreeSpins(2, 2, 4, -2, -2, -4), Real(1, 1, 0, 22)),
      Entry(ThreeSpins(2, 2, 4, -2, 0, -2), Real(1, 0, 707106781, 18654746)),
      Entry(ThreeSpins(2, 2, 4, -2, 2, 0), Real(1, 0, 408248290, 46386313)),
      Entry(ThreeSpins(2, 2, 4, 0, -2, -2), Real(1, 0, 707106781, 18654746)),
      Entry(ThreeSpins(2, 2, 4, 0, 0, 0), Real(1, 0, 816496580, 92772615)),
      Entry(ThreeSpins(2, 2, 4, 0, 2, 2), Real(1, 0, 707106781, 18654746)),
      Entry(ThreeSpins(2, 2, 4, 2, -2, 0), Real(1, 0, 408248290, 46386313)),
      Entry(ThreeSpins(2, 2, 4, 2, 0, 2), Real(1, 0, 707106781, 18654746)),
      Entry(ThreeSpins(2, 2, 4, 2, 2, 4), Real(1, 1, 0, 22)),
      Entry(ThreeSpins(2, 3, 1, -2, 1, -1), Real(1, 0, 408248290, 46386302)),
      Entry(ThreeSpins(2, 3, 1, -2, 3, 1), Real(1, 0, 707106781, 18654746)),
      Entry(ThreeSpins(2, 3, 1, 0, -1, -1), Real(-1, 0, 577350269, 18962573)),
      Entry(ThreeSpins(2, 3, 1, 0, 1, 1), Real(-1, 0, 577350269, 18962573)),
      Entry(ThreeSpins(2, 3, 1, 2, -3, -1), Real(1, 0, 707106781, 18654746)),
      Entry(ThreeSpins(2, 3, 1, 2, -1, 1), Real(1, 0, 408248290, 46386302)),
      Entry(ThreeSpins(2, 3, 3, -2, -1, -3), Real(-1, 0, 632455532, 3367610)),
      Entry(ThreeSpins(2, 3, 3, -2, 1, -1), Real(-1, 0, 730296743, 34022165)),
      Entry(ThreeSpins(2, 3, 3, -2, 3, 1), Real(-1, 0, 632455532, 3367610)),
      Entry(ThreeSpins(2, 3, 3, 0, -3, -3), Real(1, 0, 774596669, 24148352)),
      Entry(ThreeSpins(2, 3, 3, 0, -1, -1), Real(1, 0, 258198889, 74716126)),
      Entry(ThreeSpins(2, 3, 3, 0, 1, 1), Real(-1, 0, 258198889, 74716126)),
      Entry(ThreeSpins(2, 3, 3, 0, 3, 3), Real(-1, 0, 774596669, 24148352)),
      Entry(ThreeSpins(2, 3, 3, 2, -3, -1), Real(1, 0, 632455532, 3367610)),
      Entry(ThreeSpins(2, 3, 3, 2, -1, 1), Real(1, 0, 730296743, 34022165)),
      Entry(ThreeSpins(2, 3, 3, 2, 1, 3), Real(1, 0, 632455532, 3367610)),
      Entry(ThreeSpins(2, 3, 5, -2, -3, -5), Real(1, 0, 999999999, 99999989)),
      Entry(ThreeSpins(2, 3, 5, -2, -1, -3), Real(1, 0, 774596669, 24148318)),
      Entry(ThreeSpins(2, 3, 5, -2, 1, -1), Real(1, 0, 547722557, 50516596)),
      Entry(ThreeSpins(2, 3, 5, -2, 3, 1), Real(1, 0, 316227766, 1683794)),
      Entry(ThreeSpins(2, 3, 5, 0, -3, -3), Real(1, 0, 632455532, 3367599)),
      Entry(ThreeSpins(2, 3, 5, 0, -1, -1), Real(1, 0, 774596669, 24148318)),
      Entry(ThreeSpins(2, 3, 5, 0, 1, 1), Real(1, 0, 774596669, 24148318)),
      Entry(ThreeSpins(2, 3, 5, 0, 3, 3), Real(1, 0, 632455532, 3367599)),
      Entry(ThreeSpins(2, 3, 5, 2, -3, -1), Real(1, 0, 316227766, 1683794)),
      Entry(ThreeSpins(2, 3, 5, 2, -1, 1), Real(1, 0, 547722557, 50516596)),
      Entry(ThreeSpins(2, 3, 5, 2, 1, 3), Real(1, 0, 774596669, 24148318)),
      Entry(ThreeSpins(2, 3, 5, 2, 3, 5), Real(1, 0, 999999999, 99999989)),
      Entry(ThreeSpins(3, 0, 3, -3, 0, -3), Real(1, 1, 0, 0)),
      Entry(ThreeSpins(3, 0, 3, -1, 0, -1), Real(1, 0, 999999999, 99999989)),
      Entry(ThreeSpins(3, 0, 3, 1, 0, 1), Real(1, 0, 999999999, 99999989)),
      Entry(ThreeSpins(3, 0, 3, 3, 0, 3), Real(1, 1, 0, 0)),
      Entry(ThreeSpins(3, 1, 2, -3, 1, -2), Real(-1, 0, 866025403, 78443837)),
      Entry(ThreeSpins(3, 1, 2, -1, -1, -2), Real(1, 0, 499999999, 99999983)),
      Entry(ThreeSpins(3, 1, 2, -1, 1, 0), Real(-1, 0, 707106781, 18654724)),
      Entry(ThreeSpins(3, 1, 2, 1, -1, 0), Real(1, 0, 707106781, 18654724)),
      Entry(ThreeSpins(3, 1, 2, 1, 1, 2), Real(-1, 0, 499999999, 99999983)),
      Entry(ThreeSpins(3, 1, 2, 3, -1, 2), Real(1, 0, 866025403, 78443837)),
      Entry(ThreeSpins(3, 1, 4, -3, -1, -4), Real(1, 1, 0, 22)),
      Entry(ThreeSpins(3, 1, 4, -3, 1, -2), Real(1, 0, 499999999, 99999994)),
      Entry(ThreeSpins(3, 1, 4, -1, -1, -2), Real(1, 0, 866025403, 78443871)),
      Entry(ThreeSpins(3, 1, 4, -1, 1, 0), Real(1, 0, 707106781, 18654746)),
      Entry(ThreeSpins(3, 1, 4, 1, -1, 0), Real(1, 0, 707106781, 18654746)),
      Entry(ThreeSpins(3, 1, 4, 1, 1, 2), Real(1, 0, 866025403, 78443871)),
      Entry(ThreeSpins(3, 1, 4, 3, -1, 2), Real(1, 0, 499999999, 99999994)),
      Entry(ThreeSpins(3, 1, 4, 3, 1, 4), Real(1, 1, 0, 22)),
      Entry(ThreeSpins(3, 2, 1, -3, 2, -1), Real(1, 0, 707106781, 18654746)),
      Entry(ThreeSpins(3, 2, 1, -1, 0, -1), Real(-1, 0, 577350269, 18962573)),
      Entry(ThreeSpins(3, 2, 1, -1, 2, 1), Real(1, 0, 408248290, 46386302)),
      Entry(ThreeSpins(3, 2, 1, 1, -2, -1), Real(1, 0, 408248290, 46386302)),
      Entry(ThreeSpins(3, 2, 1, 1, 0, 1), Real(-1, 0, 577350269, 18962573)),
      Entry(ThreeSpins(3, 2, 1, 3, -2, 1), Real(1, 0, 707106781, 18654746)),
      Entry(ThreeSpins(3, 2, 3, -3, 0, -3), Real(-1, 0, 774596669, 24148352)),
      Entry(ThreeSpins(3, 2, 3, -3, 2, -1), Real(-1, 0, 632455532, 3367610)),
      Entry(ThreeSpins(3, 2, 3, -1, -2, -3), Real(1, 0, 632455532, 3367610)),
      Entry(ThreeSpins(3, 2, 3, -1, 0, -1), Real(-1, 0, 258198889, 74716126)),
      Entry(ThreeSpins(3, 2, 3, -1, 2, 1), Real(-1, 0, 730296743, 34022165)),
      Entry(ThreeSpins(3, 2, 3, 1, -2, -1), Real(1, 0, 730296743, 34022165)),
      Entry(ThreeSpins(3, 2, 3, 1, 0, 1), Real(1, 0, 258198889, 74716126)),
      Entry(ThreeSpins(3, 2, 3, 1, 2, 3), Real(-1, 0, 632455532, 3367610)),
      Entry(ThreeSpins(3, 2, 3, 3, -2, 1), Real(1, 0, 632455532, 3367610)),
      Entry(ThreeSpins(3, 2, 3, 3, 0, 3), Real(1, 0, 774596669, 24148352)),
      Entry(ThreeSpins(3, 2, 5, -3, -2, -5), Real(1, 0, 999999999, 99999989)),
      Entry(ThreeSpins(3, 2, 5, -3, 0, -3), Real(1, 0, 632455532, 3367599)),
      Entry(ThreeSpins(3, 2, 5, -3, 2, -1), Real(1, 0, 316227766, 1683794)),
      Entry(ThreeSpins(3, 2, 5, -1, -2, -3), Real(1, 0, 774596669, 24148318)),
      Entry(ThreeSpins(3, 2, 5, -1, 0, -1), Real(1, 0, 774596669, 24148318)),
      Entry(ThreeSpins(3, 2, 5, -1, 2, 1), Real(1, 0, 547722557, 50516596)),
      Entry(ThreeSpins(3, 2, 5, 1, -2, -1), Real(1, 0, 547722557, 50516596)),
      Entry(ThreeSpins(3, 2, 5, 1, 0, 1), Real(1, 0, 774596669, 24148318)),
      Entry(ThreeSpins(3, 2, 5, 1, 2, 3), Real(1, 0, 774596669, 24148318)),
      Entry(ThreeSpins(3, 2, 5, 3, -2, 1), Real(1, 0, 316227766, 1683794)),
      Entry(ThreeSpins(3, 2, 5, 3, 0, 3), Real(1, 0, 632455532, 3367599)),
      Entry(ThreeSpins(3, 2, 5, 3, 2, 5), Real(1, 0, 999999999, 99999989)),
      Entry(ThreeSpins(3, 3, 0, -3, 3, 0), Real(-1, 0, 499999999, 99999994)),
      Entry(ThreeSpins(3, 3, 0, -1, 1, 0), Real(1, 0, 499999999, 99999994)),
      Entry(ThreeSpins(3, 3, 0, 1, -1, 0), Real(-1, 0, 499999999, 99999994)),
      Entry(ThreeSpins(3, 3, 0, 3, -3, 0), Real(1, 0, 499999999, 99999994)),
      Entry(ThreeSpins(3, 3, 2, -3, 1, -2), Real(1, 0, 547722557, 50516596)),
      Entry(ThreeSpins(3, 3, 2, -3, 3, 0), Real(1, 0, 670820393, 24993692)),
      Entry(ThreeSpins(3, 3, 2, -1, -1, -2), Real(-1, 0, 632455532, 3367599)),
      Entry(ThreeSpins(3, 3, 2, -1, 1, 0), Real(-1, 0, 223606797, 74997907)),
      Entry(ThreeSpins(3, 3, 2, -1, 3, 2), Real(1, 0, 547722557, 50516596)),
      Entry(ThreeSpins(3, 3, 2, 1, -3, -2), Real(1, 0, 547722557, 50516596)),
      Entry(ThreeSpins(3, 3, 2, 1, -1, 0), Real(-1, 0, 223606797, 74997907)),
      Entry(ThreeSpins(3, 3, 2, 1, 1, 2), Real(-1, 0, 632455532, 3367599)),
      Entry(ThreeSpins(3, 3, 2, 3, -3, 0), Real(1, 0, 670820393, 24993692)),
      Entry(ThreeSpins(3, 3, 2, 3, -1, 2), Real(1, 0, 547722557, 50516596)),
      Entry(ThreeSpins(3, 3, 4, -3, -1, -4), Real(-1, 0, 707106781, 18654746)),
      Entry(ThreeSpins(3, 3, 4, -3, 1, -2), Real(-1, 0, 707106781, 18654746)),
      Entry(ThreeSpins(3, 3, 4, -3, 3, 0), Real(-1, 0, 499999999, 99999994)),
      Entry(ThreeSpins(3, 3, 4, -1, -3, -4), Real(1, 0, 707106781, 18654746)),
      Entry(ThreeSpins(3, 3, 4, -1, 1, 0), Real(-1, 0, 499999999, 99999994)),
      Entry(ThreeSpins(3, 3, 4, -1, 3, 2), Real(-1, 0, 707106781, 18654746)),
      Entry(ThreeSpins(3, 3, 4, 1, -3, -2), Real(1, 0, 707106781, 18654746)),
      Entry(ThreeSpins(3, 3, 4, 1, -1, 0), Real(1, 0, 499999999, 99999994)),
      Entry(ThreeSpins(3, 3, 4, 1, 3, 4), Real(-1, 0, 707106781, 18654746)),
      Entry(ThreeSpins(3, 3, 4, 3, -3, 0), Real(1, 0, 499999999, 99999994)),
      Entry(ThreeSpins(3, 3, 4, 3, -1, 2), Real(1, 0, 707106781, 18654746)),
      Entry(ThreeSpins(3, 3, 4, 3, 1, 4), Real(1, 0, 707106781, 18654746)),
      Entry(ThreeSpins(3, 3, 6, -3, -3, -6), Real(1, 1, 0, 22)),
      Entry(ThreeSpins(3, 3, 6, -3, -1, -4), Real(1, 0, 707106781, 18654746)),
      Entry(ThreeSpins(3, 3, 6, -3, 1, -2), Real(1, 0, 447213595, 49995793)),
      Entry(ThreeSpins(3, 3, 6, -3, 3, 0), Real(1, 0, 223606797, 74997894)),
      Entry(ThreeSpins(3, 3, 6, -1, -3, -4), Real(1, 0, 707106781, 18654746)),
      Entry(ThreeSpins(3, 3, 6, -1, -1, -2), Real(1, 0, 774596669, 24148352)),
      Entry(ThreeSpins(3, 3, 6, -1, 1, 0), Real(1, 0, 670820393, 24993670)),
      Entry(ThreeSpins(3, 3, 6, -1, 3, 2), Real(1, 0, 447213595, 49995793)),
      Entry(ThreeSpins(3, 3, 6, 1, -3, -2), Real(1, 0, 447213595, 49995793)),
      Entry(ThreeSpins(3, 3, 6, 1, -1, 0), Real(1, 0, 670820393, 24993670)),
      Entry(ThreeSpins(3, 3, 6, 1, 1, 2), Real(1, 0, 774596669, 24148352)),
      Entry(ThreeSpins(3, 3, 6, 1, 3, 4), Real(1, 0, 707106781, 18654746)),
      Entry(ThreeSpins(3, 3, 6, 3, -3, 0), Real(1, 0, 223606797, 74997894)),
      Entry(ThreeSpins(3, 3, 6, 3, -1, 2), Real(1, 0, 447213595, 49995793)),
      Entry(ThreeSpins(3, 3, 6, 3, 1, 4), Real(1, 0, 707106781, 18654746)),
      Entry(ThreeSpins(3, 3, 6, 3, 3, 6), Real(1, 1, 0, 22)) }

(***************************************************************************)
(* ClebschGordan::lookup_table, a set of (key, value) entries.  The state  *)
(* keeps it as its difference from the initializer.                        *)
(***************************************************************************)
Table(a, e) == (TabulatedEntries \ e) \cup a

lookup_table == Table(added, erased)

(***************************************************************************)
(* std::unordered_map<ThreeSpins, double, ThreeSpinHash>: an entry is      *)
(* found in the bucket of the key's hash, by operator==.                   *)
(***************************************************************************)
find(table, k) ==
    { e \in table : ThreeSpinHash(e.key) = ThreeSpinHash(k) /\ KeyEq(e.key, k) }

emplace(table, k, v) ==
    IF find(table, k) # {} THEN table ELSE table \cup {Entry(k, v)}

(***************************************************************************)
(* ClebschGordan::calculate_coefficient, on keys whose spins are at most 3 *)
(* (doubled): the tabulated value, and zero for every other such key (the  *)
(* table holds every non-vanishing coefficient of that range).             *)
(***************************************************************************)
calculate_coefficient(k) ==
    LET t == { e \in TabulatedEntries : tied(e.key) = tied(k) } IN
    IF t = {} THEN Zero ELSE (CHOOSE e \in t : TRUE).value

(***************************************************************************)
(* ClebschGordan::coefficient: the value returned, whether the analytic    *)
(* calculation ran, and the table after the call.                          *)
(***************************************************************************)
coefficient_Evicting(table, k) ==
    LET search == find(table, k) IN
    IF search # {}
    THEN [value |-> (CHOOSE e \in search : TRUE).value,
          calculated |-> FALSE,
          table |-> table]
    ELSE LET result == calculate_coefficient(k) IN
         [value |-> result,
          calculated |-> TRUE,
          table |-> emplace(TabulatedEntries, k, result)]

coefficient(table, k) ==
    LET search == find(table, k) IN
    IF search # {}
    THEN [value |-> (CHOOSE e \in search : TRUE).value,
          calculated |-> FALSE,
          table |-> table]
    ELSE LET result == calculate_coefficient(k) IN
         [value |-> result,
          calculated |-> TRUE,
          table |-> emplace(table, k, result)]

(* The keys the model calls coefficient with. *)
CallKeys ==
    { ThreeSpins(1, 1, 2, -1, 1, 0),
      ThreeSpins(0, 0, 0, 0, 0, 0),
      ThreeSpins(1, 1, 0, -1, 1, 0),
      ThreeSpins(1, 1, 0, 1, -1, 0),
      ThreeSpins(0, 1, 1, 0, -1, -1),
      ThreeSpins(2, 2, 2, 0, 0, 0),
      ThreeSpins(3, 3, 4, -1, -1, -2),
      ThreeSpins(1, 1, 1, 1, 1, 1),
      ThreeSpins(1, 1, 1, 1, -1, 0) }

(* The physically valid keys with spins up to MaxJ (doubled). *)
Abs(x) == IF x < 0 THEN -x ELSE x

IsValid(k) ==
    /\ Abs(k.j1 - k.j2) <= k.j3 /\ k.j3 <= k.j1 + k.j2
    /\ (k.j1 + k.j2 + k.j3) % 2 = 0
    /\ Abs(k.m1) <= k.j1 /\ Abs(k.m2) <= k.j2 /\ Abs(k.m3) <= k.j3
    /\ (k.j1 - k.m1) % 2 = 0 /\ (k.j2 - k.m2) % 2 = 0 /\ (k.j3 - k.m3) % 2 = 0
    /\ k.m1 + k.m2 = k.m3

ValidKeys ==
    { k \in [j1 : 0 .. MaxJ, j2 : 0 .. MaxJ, j3 : 0 .. 2 * MaxJ,
             m1 : -MaxJ .. MaxJ, m2 : -MaxJ .. MaxJ, m3 : -2 * MaxJ .. 2 * MaxJ] :
        IsValid(k) }

(***************************************************************************)
(* The state machines.  Spec: one call of one of the two operations of the *)
(* finder on a particle list.  SpecCG: a sequence of calls of coefficient  *)
(* on the shared lookup table.  SpecHash: ThreeSpinHash applied to a pair  *)
(* of valid keys.                                                          *)
(***************************************************************************)
DecayIdle ==
    /\ search_list = <<>> /\ dt = 0 /\ only_res = FALSE
    /\ actions = <<>> /\ draws = <<>> /\ outcome = "none" /\ op = "none"

CGIdle == added = {} /\ erased = {} /\ calls = <<>>

HashIdle == spins = <<>> /\ hashes = <<>>

CallersIdle == callers = <<>>

RivetIdle == need_init_ = TRUE /\ handler_ = <<>> /\ events = <<>>

Init ==
    /\ \E x0 \in CurrentTimes : search_list \in ParticleLists(x0)
    /\ dt = 0
    /\ only_res = FALSE
    /\ actions = <<>>
    /\ draws = <<>>
    /\ outcome = "none"
    /\ op = "none"
    /\ CGIdle
    /\ HashIdle
    /\ CallersIdle
    /\ RivetIdle

(* The number of values the call will ask the random source for. *)
Consumers(list) ==
    Cardinality({ i \in 1 .. Len(list) :
                    /\ ~ is_stable(list[i])
                    /\ HasHadronicDecays(
                           total_weight(get_partial_widths_hadronic(list[i]))) })

FindActionsInCell ==
    /\ op = "none"
    /\ \E step \in StepSizes, tape \in [1 .. Consumers(search_list) -> Samples] :
         LET r == find_actions_in_cell(search_list, step, tape) IN
         /\ dt' = step
         /\ actions' = r.actions
         /\ draws' = r.draws
    /\ outcome' = "returned"
    /\ op' = "cell"
    /\ UNCHANGED <<search_list, only_res, cg_vars, hash_vars, conc_vars, rivet_vars>>

FindFinalActions ==
    /\ op = "none"
    /\ \E flag \in BOOLEAN :
         /\ only_res' = flag
         /\ actions' = find_final_actions(search_list, flag)
    /\ outcome' = "returned"
    /\ op' = "final"
    /\ UNCHANGED <<search_list, dt, draws, cg_vars, hash_vars, conc_vars, rivet_vars>>

Next == FindActionsInCell \/ FindFinalActions

Spec == Init /\ [][Next]_vars

InitCG == DecayIdle /\ CGIdle /\ HashIdle /\ CallersIdle /\ RivetIdle

Coefficient ==
    /\ Len(calls) < MaxCalls
    /\ \E k \in CallKeys :
         LET r == coefficient(lookup_table, k) IN
         /\ added' = r.table \ TabulatedEntries
         /\ erased' = TabulatedEntries \ r.table
         /\ calls' = Append(calls, [key |-> k, value |-> r.value,
                                    calculated |-> r.calculated,
                                    before |-> <<added, erased>>])
    /\ UNCHANGED <<decay_vars, hash_vars, conc_vars, rivet_vars>>

NextCG == Coefficient

SpecCG == InitCG /\ [][NextCG]_vars

InitHash ==
    /\ DecayIdle /\ CGIdle /\ CallersIdle /\ RivetIdle
    /\ spins \in ValidKeys \X ValidKeys
    /\ hashes = <<>>

Hash ==
    /\ hashes = <<>>
    /\ hashes' = <<ThreeSpinHash(spins[1]), ThreeSpinHash(spins[2])>>
    /\ UNCHANGED <<decay_vars, cg_vars, spins, conc_vars, rivet_vars>>

NextHash == Hash

SpecHash == InitHash /\ [][NextHash]_vars

(***************************************************************************)
(* SpecConc: callers of coefficient running concurrently with the same     *)
(* key.  A call is find, then (for a key not found) calculate and emplace. *)
(* lookup_table is a plain static std::unordered_map and the class holds   *)
(* no lock, so find and emplace are not atomic: each has a begin and an    *)
(* end, and the steps of different callers interleave freely.  A find that *)
(* overlaps an emplace, and an emplace that overlaps another, is a data    *)
(* race: its result is any of the outcomes below.                          *)
(***************************************************************************)
Callers == 1 .. MaxCallers

(* A value no calculation produced, read or written in a race. *)
Torn == Real(1, 0, 0, 1)

NotFound == <<>>

Others(t) == Callers \ {t}

Writing(t) == callers[t].pc = "emplacing"

Reading(t) == callers[t].pc = "finding"

(* What a find can return: the entry found, or NotFound. *)
FindOutcomes(table, k, raced) ==
    IF raced
    THEN {NotFound, <<calculate_coefficient(k)>>, <<Torn>>}
    ELSE IF find(table, k) = {} THEN {NotFound}
         ELSE { <<e.value>> : e \in find(table, k) }

(* What the table can be after an emplace. *)
EmplaceOutcomes(table, k, v, raced) ==
    IF raced
    THEN {emplace(table, k, v), table, emplace(table, k, Torn)}
    ELSE {emplace(table, k, v)}

InitConc ==
    /\ DecayIdle /\ CGIdle /\ HashIdle /\ RivetIdle
    /\ \E k \in CallKeys :
         callers = [t \in Callers |->
                      [pc |-> "idle", key |-> k, search |-> NotFound,
                       result |-> NotFound, ret |-> NotFound, raced |-> FALSE]]

BeginFind(t) ==
    /\ callers[t].pc = "idle"
    /\ callers' = [callers EXCEPT
                     ![t].pc = "finding",
                     ![t].raced = \E u \in Others(t) : Writing(u)]
    /\ UNCHANGED <<decay_vars, cg_vars, hash_vars, rivet_vars>>

EndFind(t) ==
    /\ callers[t].pc = "finding"
    /\ \E search \in FindOutcomes(lookup_table, callers[t].key, callers[t].raced) :
         callers' = [callers EXCEPT
                       ![t].search = search,
                       ![t].raced = FALSE,
                       ![t].ret = search,
                       ![t].pc = IF search = NotFound THEN "calculating"
                                 ELSE "done"]
    /\ UNCHANGED <<decay_vars, cg_vars, hash_vars, rivet_vars>>

Calculate(t) ==
    /\ callers[t].pc = "calculating"
    /\ callers' = [callers EXCEPT
                     ![t].result = <<calculate_coefficient(callers[t].key)>>,
                     ![t].pc = "calculated"]
    /\ UNCHANGED <<decay_vars, cg_vars, hash_vars, rivet_vars>>

BeginEmplace(t) ==
    /\ callers[t].pc = "calculated"
    /\ callers' = [u \in Callers |->
                     IF u = t
                     THEN [callers[t] EXCEPT
                             !.pc = "emplacing",
                             !.raced = \E w \in Others(t) : Writing(w)]
                     ELSE IF Reading(u) \/ Writing(u)
                          THEN [callers[u] EXCEPT !.raced = TRUE]
                          ELSE callers[u]]
    /\ UNCHANGED <<decay_vars, cg_vars, hash_vars, rivet_vars>>

EndEmplace(t) ==
    /\ callers[t].pc = "emplacing"
    /\ \E table \in EmplaceOutcomes(lookup_table, callers[t].key,
                                     callers[t].result[1], callers[t].raced) :
         /\ added' = table \ TabulatedEntries
         /\ erased' = TabulatedEntries \ table
    /\ callers' = [callers EXCEPT
                     ![t].ret = callers[t].result,
                     ![t].raced = FALSE,
                     ![t].pc = "done"]
    /\ UNCHANGED <<decay_vars, calls, hash_vars, rivet_vars>>

NextConc ==
    \E t \in Callers :
        \/ BeginFind(t)
        \/ EndFind(t)
        \/ Calculate(t)
        \/ BeginEmplace(t)
        \/ EndEmplace(t)

SpecConc == InitConc /\ [][NextConc]_vars

(***************************************************************************)
(* SpecRivet: a RivetOutput object, from its construction on, handed one   *)
(* event after the other.  handler_ is the log of the calls made on the    *)
(* Rivet::AnalysisHandler; a call is its name and, for init and analyze,   *)
(* the number of the event passed.                                         *)
(***************************************************************************)
HandlerCall(name, ev) == [call |-> name, event |-> ev]

SetupCall(name) == [call |-> name]

EventNumbers == 0 .. 1

(* The keys of the Rivet configuration that lead to calls on the handler,
   in the order setup() processes them, with the handler method each one
   reaches. *)
SetupKeys ==
    << <<"Preloads", "readData">>,
       <<"Analyses", "addAnalysis">>,
       <<"Ignore_Beams", "setIgnoreBeams">>,
       <<"Cross_Section", "setCrossSection">>,
       <<"No_Multi", "skipMultiWeights">>,
       <<"Nominal", "setNominalWeightName">>,
       <<"Cap", "setWeightCap">>,
       <<"NLO_Smearing", "setNLOSmearing">>,
       <<"Select", "selectMultiWeights">>,
       <<"Deselect", "deselectMultiWeights">> >>

ConfigKeys == { SetupKeys[i][1] : i \in 1 .. Len(SetupKeys) }

(* The configurations the model constructs the object with: every choice
   of the first four keys, and the weight keys all present or all absent. *)
WeightKeys == { SetupKeys[i][1] : i \in 5 .. Len(SetupKeys) }

Configurations ==
    { c \in SUBSET ConfigKeys :
        (c \cap WeightKeys = {}) \/ (WeightKeys \subseteq c) }

(* RivetOutput::setup: set_ignore_beams is called also without the key. *)
RECURSIVE setup(_, _, _)
setup(conf, i, handler) ==
    IF i > Len(SetupKeys) THEN handler
    ELSE IF SetupKeys[i][1] \in conf \/ SetupKeys[i][1] = "Ignore_Beams"
         THEN setup(conf, i + 1,
                    Append(handler, SetupCall(SetupKeys[i][2])))
         ELSE setup(conf, i + 1, handler)

(* RivetOutput::RivetOutput *)
RivetOutput(conf) ==
    [need_init_ |-> TRUE, handler_ |-> setup(conf, 1, <<>>)]

(* RivetOutput::at_eventend, on an object and the number of the event
   HepMcInterface::at_eventend has filled event_ with. *)
at_eventend_InitEveryEvent(self, event_number) ==
    LET initialised ==
            IF self.need_init_
            THEN [self EXCEPT
                    !.handler_ = Append(@, HandlerCall("init", event_number))]
            ELSE self
    IN  [initialised EXCEPT
            !.handler_ = Append(@, HandlerCall("analyze", event_number))]

at_eventend(self, event_number) ==
    LET initialised ==
            IF self.need_init_
            THEN [self EXCEPT
                    !.need_init_ = FALSE,
                    !.handler_ = Append(@, HandlerCall("init", event_number))]
            ELSE self
    IN  [initialised EXCEPT
            !.handler_ = Append(@, HandlerCall("analyze", event_number))]

InitRivet ==
    /\ DecayIdle /\ CGIdle /\ HashIdle /\ CallersIdle
    /\ \E conf \in Configurations :
         LET self == RivetOutput(conf) IN
         /\ need_init_ = self.need_init_
         /\ handler_ = self.handler_
    /\ events = <<>>

AtEventEnd ==
    /\ Len(events) < MaxEvents
    /\ \E event_number \in EventNumbers :
         LET self == at_eventend([need_init_ |-> need_init_,
                                  handler_ |-> handler_], event_number)
         IN  /\ need_init_' = self.need_init_
             /\ handler_' = self.handler_
             /\ events' = Append(events, event_number)
    /\ UNCHANGED <<decay_vars, cg_vars, hash_vars, conc_vars>>

NextRivet == AtEventEnd

SpecRivet == InitRivet /\ [][NextRivet]_vars

(***************************************************************************)
(* Properties of the finder, checked under Spec.                           *)
(***************************************************************************)
RECURSIVE SumOfWeights(_)
SumOfWeights(l) ==
    IF l = <<>> THEN 0 ELSE Head(l).weight + SumOfWeights(Tail(l))

Particles == 1 .. Len(search_list)
Unstable(i) == ~ search_list[i].type.stable
HadronicWidth(i) == SumOfWeights(search_list[i].type.hadronic)
ActionsOf(i) == { n \in 1 .. Len(actions) : actions[n].src = i }
DrawsOf(i) == { d \in 1 .. Len(draws) : draws[d].src = i }
DecayInstant(i, t) == search_list[i].x0 + t

(* C1: neither find_actions_in_cell nor find_final_actions returns an
   action whose source particle has a stable type. *)
C1_NoStableSource ==
    op \in {"cell", "final"} =>
        \A n \in 1 .. Len(actions) :
            /\ actions[n].src \in Particles
            /\ ~ search_list[actions[n].src].type.stable
            /\ ~ actions[n].particle.type.stable

C1_Witness ==
    /\ op = "final"
    /\ \E i \in Particles : search_list[i].type.stable
    /\ \E i \in Particles : Unstable(i)
    /\ actions # <<>>

(* C2: in find_actions_in_cell an unstable particle of strictly positive
   hadronic width has one decay time sampled and produces an action iff
   0 <= decay_time < dt and formation_time < particle time + decay_time;
   every action returned carries a decay time in [0, dt). *)
C2_DecisionRule ==
    op = "cell" =>
        /\ \A i \in Particles :
             (Unstable(i) /\ HadronicWidth(i) > 0) =>
                 /\ Cardinality(DrawsOf(i)) = 1
                 /\ \A d \in DrawsOf(i) :
                      LET t == draws[d].value IN
                      (\E n \in ActionsOf(i) : actions[n].decay_time = t)
                        <=> (/\ 0 <= t /\ t < dt
                             /\ search_list[i].formation_time < DecayInstant(i, t))
        /\ \A n \in 1 .. Len(actions) :
             0 <= actions[n].decay_time /\ actions[n].decay_time < dt

C2_Witness ==
    /\ op = "cell"
    /\ dt > 0
    /\ \E i \in Particles : ActionsOf(i) # {}
    /\ \E i \in Particles :
         /\ DrawsOf(i) # {} /\ ActionsOf(i) = {}
         /\ \E d \in DrawsOf(i) : draws[d].value < dt

(* C3: a particle whose formation_time equals the candidate decay instant
   (particle time + decay_time) produces no action; one whose
   formation_time is strictly less produces an action when
   decay_time < dt. *)
C3_FormationBoundary ==
    op = "cell" =>
        \A d \in 1 .. Len(draws) :
            LET i == draws[d].src
                t == draws[d].value
            IN  /\ search_list[i].formation_time = DecayInstant(i, t)
                     => ActionsOf(i) = {}
                /\ (search_list[i].formation_time < DecayInstant(i, t) /\ t < dt)
                     => ActionsOf(i) # {}

C3_Witness ==
    /\ op = "cell"
    /\ \E d \in 1 .. Len(draws) :
         /\ draws[d].value < dt
         /\ search_list[draws[d].src].formation_time
              = DecayInstant(draws[d].src, draws[d].value)
         /\ ActionsOf(draws[d].src) = {}
    /\ \E d \in 1 .. Len(draws) :
         /\ draws[d].value < dt
         /\ search_list[draws[d].src].formation_time + 1
              = DecayInstant(draws[d].src, draws[d].value)
         /\ ActionsOf(draws[d].src) # {}

(* C4 as stated: on a list of unstable particles only, find_final_actions
   returns exactly one action per particle, each with decay time 0 and a
   non-empty channel list equal to the full channel set. *)
C4_Original ==
    (op = "final" /\ \A i \in Particles : Unstable(i)) =>
        /\ Len(actions) = Len(search_list)
        /\ \A n \in 1 .. Len(actions) :
             /\ actions[n].src = n
             /\ actions[n].particle = search_list[n]
             /\ actions[n].decay_time = 0
             /\ actions[n].decays # <<>>
             /\ actions[n].decays = search_list[n].type.full

(* C4 as amended: on a list of unstable particles only, find_final_actions
   returns exactly one action per particle, each with decay time 0 and a
   channel list equal to the full (not hadronic-only) channel set at the
   particle's effective mass, which is empty when that set is empty. *)
C4_Completeness ==
    (op = "final" /\ \A i \in Particles : Unstable(i)) =>
        /\ Len(actions) = Len(search_list)
        /\ \A n \in 1 .. Len(actions) :
             /\ actions[n].src = n
             /\ actions[n].particle = search_list[n]
             /\ actions[n].decay_time = 0
             /\ actions[n].decays = search_list[n].type.full

C4_Witness ==
    /\ op = "final"
    /\ Len(search_list) >= 2
    /\ \A i \in Particles : Unstable(i)
    /\ \E i \in Particles : search_list[i].type.full = <<>>
    /\ \E i \in Particles :
         /\ search_list[i].type.full # search_list[i].type.hadronic
         /\ ActionsOf(i) # {}

(* C5: the list returned by find_actions_in_cell holds at most one action
   per particle and exactly one per decaying particle, and the actions
   are in the order of their source particles in the input list. *)
C5_OrderedSubsequence ==
    op = "cell" =>
        /\ \A n \in 1 .. Len(actions) :
             /\ actions[n].src \in Particles
             /\ actions[n].particle = search_list[actions[n].src]
        /\ \A m, n \in 1 .. Len(actions) :
             m < n => actions[m].src < actions[n].src
        /\ \A i \in Particles : Cardinality(ActionsOf(i)) <= 1
        /\ \A d \in 1 .. Len(draws) :
             (/\ draws[d].value < dt
              /\ search_list[draws[d].src].formation_time
                   < DecayInstant(draws[d].src, draws[d].value))
               => Cardinality(ActionsOf(draws[d].src)) = 1

C5_Witness ==
    /\ op = "cell"
    /\ Len(actions) >= 2
    /\ actions[1].particle # actions[2].particle
    /\ actions[1].decay_time # actions[2].decay_time

(* C6 as stated: find_actions_in_cell called with a negative or zero dt
   fails instead of returning an action list. *)
C6_Original ==
    (op = "cell" /\ dt <= 0) => outcome = "failed"

(* C6 as amended: find_actions_in_cell called with a negative or zero dt
   raises no error; it returns an empty action list, since no sampled
   decay time is below dt. *)
C6_NonPositiveStep ==
    (op = "cell" /\ dt <= 0) => (outcome = "returned" /\ actions = <<>>)

C6_Witness ==
    /\ op = "cell"
    /\ dt < 0
    /\ \E d \in 1 .. Len(draws) :
         search_list[draws[d].src].formation_time
           < DecayInstant(draws[d].src, draws[d].value)

(* C7: in find_actions_in_cell an unstable particle whose summed hadronic
   width is not strictly positive is skipped: no decay time is sampled
   for it, no action is produced for it, the call returns normally, and
   the particles after it are still processed. *)
C7_NoWidthSkipped ==
    op = "cell" =>
        \A i \in Particles :
            (Unstable(i) /\ ~ (HadronicWidth(i) > 0)) =>
                /\ DrawsOf(i) = {}
                /\ ActionsOf(i) = {}
                /\ outcome = "returned"
                /\ \A j \in Particles :
                     (j > i /\ Unstable(j) /\ HadronicWidth(j) > 0)
                       => DrawsOf(j) # {}

C7_Witness ==
    /\ op = "cell"
    /\ Len(search_list) >= 2
    /\ Unstable(1) /\ HadronicWidth(1) = 0
    /\ search_list[1].type.hadronic # <<>>
    /\ ActionsOf(2) # {}

(* C14: every action produced by find_actions_in_cell carries exactly the
   hadronic channel list of its particle, the list whose summed width was
   tested and used for the sampling: the same branches in the same order,
   once, and not the full channel list. *)
C14_FetchedHadronicList ==
    op = "cell" =>
        \A n \in 1 .. Len(actions) :
            LET i == actions[n].src IN
            /\ actions[n].decays = search_list[i].type.hadronic
            /\ \A d \in DrawsOf(i) :
                 draws[d].width = SumOfWeights(actions[n].decays)

C14_Witness ==
    /\ op = "cell"
    /\ \E n \in 1 .. Len(actions) :
         /\ Len(actions[n].decays) = 2
         /\ actions[n].decays[1] # actions[n].decays[2]
         /\ actions[n].decays # search_list[actions[n].src].type.full
         /\ DrawsOf(actions[n].src) # {}

(* C15: find_final_actions returns, in list order, one action of decay
   time 0 with the full channel list for every unstable particle and
   nothing else, whatever the particle's formation time and width and
   whatever the only_res flag. *)
C15_ForcedRegardless ==
    op = "final" =>
        /\ \A i \in Particles :
             Cardinality(ActionsOf(i)) = IF Unstable(i) THEN 1 ELSE 0
        /\ \A m, n \in 1 .. Len(actions) :
             m < n => actions[m].src < actions[n].src
        /\ \A n \in 1 .. Len(actions) :
             /\ actions[n].src \in Particles
             /\ actions[n].particle = search_list[actions[n].src]
             /\ actions[n].decay_time = 0
             /\ actions[n].decays = search_list[actions[n].src].type.full

C15_Witness ==
    /\ op = "final"
    /\ only_res = TRUE
    /\ \E i \in Particles :
         /\ Unstable(i)
         /\ search_list[i].formation_time > search_list[i].x0
         /\ SumOfWeights(search_list[i].type.full) <= 0
         /\ ActionsOf(i) # {}
    /\ \E i \in Particles :
         /\ Unstable(i)
         /\ SumOfWeights(search_list[i].type.full) > 0
         /\ ActionsOf(i) # {}

(***************************************************************************)
(* Properties of the lookup table, checked under SpecCG.                   *)
(***************************************************************************)
KeysOf(table) == { e.key : e \in table }
StoredIn(table, k) == { e \in table : e.key = k }
TableBefore(n) == Table(calls[n].before[1], calls[n].before[2])
TableAfter(n) == IF n < Len(calls) THEN TableBefore(n + 1) ELSE lookup_table

(* C8: coefficient returns the stored value of a key present in the lookup
   table without running the analytic calculation; for an absent key it
   calculates the value, stores it under that key and returns it.  A
   second call with the same key returns the same value with no further
   calculation, and a key of the pre-populated table is never
   calculated. *)
C8_Memoized ==
    \A n \in 1 .. Len(calls) :
        LET c == calls[n]
            stored == StoredIn(TableBefore(n), c.key)
        IN  /\ stored # {} =>
                 /\ ~ c.calculated
                 /\ \A e \in stored : c.value = e.value
                 /\ TableAfter(n) = TableBefore(n)
            /\ stored = {} =>
                 /\ c.calculated
                 /\ c.value = calculate_coefficient(c.key)
                 /\ StoredIn(TableAfter(n), c.key) = {Entry(c.key, c.value)}
            /\ \A m \in 1 .. n - 1 :
                 calls[m].key = c.key =>
                     (c.value = calls[m].value /\ ~ c.calculated)
            /\ c.key \in KeysOf(TabulatedEntries) => ~ c.calculated

C8_Witness ==
    /\ Len(calls) >= 3
    /\ calls[1].key = ThreeSpins(2, 2, 2, 0, 0, 0)
    /\ calls[1].calculated
    /\ calls[2].key = calls[1].key
    /\ ~ calls[2].calculated /\ calls[2].value = calls[1].value
    /\ calls[3].key = ThreeSpins(1, 1, 2, -1, 1, 0)
    /\ calls[3].value = Real(1, 0, 707106781, 18654746)

(* C9: a call of coefficient keeps every entry of the lookup table, with
   its value, and adds at most one entry, under the key it was called
   with; no key ever has two values. *)
C9_WriteOnce ==
    [][ /\ lookup_table \subseteq lookup_table'
        /\ Cardinality(lookup_table' \ lookup_table) <= 1
        /\ \A e \in lookup_table' \ lookup_table :
             e.key = calls'[Len(calls')].key
        /\ \A e, f \in lookup_table' : e.key = f.key => e.value = f.value
      ]_vars

C9_Witness ==
    /\ Len(calls) >= 3
    /\ calls[1].calculated /\ calls[2].calculated
    /\ ~ calls[3].calculated
    /\ Cardinality(lookup_table) = Cardinality(TabulatedEntries) + 2

(* The sum a + b of two coefficients is within 1e-12 of zero.  In units of
   1e-17 the sum is U * 10^17 + F1 * 10^8 + F2, with |F2| < 2 * 10^8. *)
CancelWithinTolerance(a, b) ==
    LET U  == a[1] * a[2] + b[1] * b[2]
        F1 == a[1] * a[3] + b[1] * b[3]
        F2 == a[1] * a[4] + b[1] * b[4]
    IN  /\ U \in -1 .. 1
        /\ \E d \in -2 .. 2 :
             /\ F1 = d - U * 1000000000
             /\ d * 100000000 + F2 \in -100000 .. 100000

(* C12: coefficient(0,0,0,0,0,0) is 1.0 and coefficient(1,1,0,-1,1,0) is
   the negation of coefficient(1,1,0,1,-1,0) within 1e-12, both served
   from the lookup table without a calculation. *)
C12_SpotCheck ==
    /\ \A n \in 1 .. Len(calls) :
         calls[n].key = ThreeSpins(0, 0, 0, 0, 0, 0) =>
             (calls[n].value = Real(1, 1, 0, 0) /\ ~ calls[n].calculated)
    /\ \A m, n \in 1 .. Len(calls) :
         (/\ calls[m].key = ThreeSpins(1, 1, 0, -1, 1, 0)
          /\ calls[n].key = ThreeSpins(1, 1, 0, 1, -1, 0))
           => /\ CancelWithinTolerance(calls[m].value, calls[n].value)
              /\ calls[m].value # Zero
              /\ ~ calls[m].calculated /\ ~ calls[n].calculated

C12_Witness ==
    /\ Len(calls) >= 3
    /\ calls[1].key = ThreeSpins(1, 1, 0, -1, 1, 0)
    /\ calls[2].key = ThreeSpins(1, 1, 0, 1, -1, 0)
    /\ calls[3].key = ThreeSpins(0, 0, 0, 0, 0, 0)
    /\ calls[1].value = Real(-1, 0, 707106781, 18654757)
    /\ calls[2].value = Real(1, 0, 707106781, 18654757)

(***************************************************************************)
(* Property of the hash, checked under SpecHash.                           *)
(***************************************************************************)
(* C10: ThreeSpinHash maps any two distinct physically valid ThreeSpins
   keys to distinct hash values. *)
C10_PerfectHash ==
    (hashes # <<>> /\ spins[1] # spins[2]) => hashes[1] # hashes[2]

(***************************************************************************)
(* Property of concurrent callers, checked under SpecConc.                 *)
(***************************************************************************)
(* C11: under any interleaving of concurrent callers of coefficient with
   the same key, no two callers write the lookup table at the same time,
   no caller reads it while another writes it, and all callers return
   the same value. *)
C11_SingleWriter ==
    /\ \A t \in Callers : \A u \in Others(t) :
         Writing(t) => ~ (Writing(u) \/ Reading(u))
    /\ \A t \in Callers : \A u \in Others(t) :
         (callers[t].pc = "done" /\ callers[u].pc = "done")
           => callers[t].ret = callers[u].ret

(***************************************************************************)
(* Property of the Rivet output, checked under SpecRivet.                  *)
(***************************************************************************)
HandlerCalls(name) == { i \in 1 .. Len(handler_) : handler_[i].call = name }

(* The events of the analyze calls, in the order of the calls. *)
RECURSIVE AnalysedFrom(_)
AnalysedFrom(i) ==
    IF i > Len(handler_) THEN <<>>
    ELSE IF handler_[i].call = "analyze"
         THEN <<handler_[i].event>> \o AnalysedFrom(i + 1)
         ELSE AnalysedFrom(i + 1)

(* C16: over any sequence of at_eventend calls on one RivetOutput, the
   handler is initialised exactly once, in the first call and directly
   before that call's analyze, with that call's event; every call
   analyses its event exactly once; need_init_ is true before the first
   call and false from then on. *)
C16_InitialisedOnce ==
    /\ Cardinality(HandlerCalls("init")) = IF events = <<>> THEN 0 ELSE 1
    /\ AnalysedFrom(1) = events
    /\ \A i \in HandlerCalls("init") :
         /\ handler_[i].event = events[1]
         /\ \A a \in HandlerCalls("analyze") : i < a
         /\ i + 1 \in HandlerCalls("analyze")
    /\ need_init_ = (events = <<>>)

C16_Witness ==
    /\ Len(events) >= 3
    /\ events[1] # events[2]
    /\ ~ need_init_
    /\ HandlerCalls("addAnalysis") # {}
    /\ Cardinality(HandlerCalls("init")) = 1

====
